---- MODULE Spec2Model ----
(***************************************************************************)
(* Speckle session daemon (.speckle/scripts/session_daemon.py).            *)
(*                                                                         *)
(* The daemon keeps worker sessions in step with the status of the beads   *)
(* recorded in .beads/issues.jsonl: sync_sessions spawns a session for     *)
(* every in_progress bead that has none and terminates the session of      *)
(* every closed-like bead that still has one.  `sync` runs one pass,       *)
(* `watch` runs a pass whenever the file's modification time grows.        *)
(*                                                                         *)
(* Spec      is the `sync` command (one_shot), which the operator may run  *)
(*           again after it has returned.                                  *)
(* SpecWatch is the `watch` command (watch_loop) with the record store     *)
(*           being written and the interrupt arriving at any moment.       *)
(* SpecWatchFair is SpecWatch with the daemon's own statements fair.        *)
(* SpecStatus is the `status` command (status_report).                     *)
(* SpecAll   is any of the three commands, as main dispatches them.        *)
(* SpecLoad  is load_issues applied to record files of any content.        *)
(* SpecTwo   is two `sync` processes on one store and one registry.        *)
(***************************************************************************)
EXTENDS Integers, Sequences, FiniteSets, TLC

\* ------------------------------------------------------------------ bounds
\* Number of bead ids W1..Wn.
NumIds == 2
\* Modification times of the record file are drawn from 1..MaxTime.
MaxTime == 2
\* How many times the operator runs `sync` in a row.
MaxPasses == 2
\* Number of lines of a record file of arbitrary content.
MaxLines == 3

Ids == 1..NumIds
\* A record line whose "id" is missing or falsy.
NoId == 0
\* issue.get("status") of a record that has no status field.
NoStatus == "None"
\* The statuses a record store is written with.
Statuses ==
    {"in_progress", "closed", "done", "blocked", "blocking", "cancelled",
     "wontfix", "open", "ready", "todo", NoStatus}
\* The statuses written while the watch loop runs.
WatchStatuses == {"in_progress", "closed"}

\* An empty Python dict.
EmptyDict == << >>

VARIABLES
    issuesFile,       \* ISSUES_FILE: [exists, mtime, lines]
    sessions,         \* Session Registry: number of live sessions per bead id
    command,          \* args.command: "sync", "watch" or "status"
    dry_run,          \* args.dry_run
    pc,               \* position of the daemon
    issues,           \* sync_sessions: the loaded snapshot (id -> status)
    active_sessions,  \* sync_sessions: bead ids of the listed live sessions
    todo,             \* sync_sessions: ids the running for loop has not visited
    actions,          \* sync_sessions: the ActionRecord (id -> outcome tag)
    calls,            \* calls the Session Registry received during this pass
    mtime,            \* watch_loop: st_mtime read in this tick
    last_mtime,       \* watch_loop: the observed timestamp
    passNo,           \* number of the `sync` run
    prevOk,           \* the previous `sync` run acted, and all its actions succeeded
    startOk,          \* registry was consistent with the store when the pass began
    firstTick,        \* watch_loop is in its first tick
    syncs,            \* sync_sessions invocations of the current tick
    notice,           \* "Issues file changed" was printed in the current tick
    gate,             \* what the current tick saw: [exists, mtime, last]
    unseen,           \* the store holds a status change no pass has loaded
    missed,           \* ... and it was there when the current tick began
    cutOff,           \* the interrupt cut a pass off between two of its registry calls
    report,           \* status_report: what it printed about drift
    prevDry,          \* a real `sync` run follows a dry run: the dry run's ActionRecord
    retry,            \* ids whose last action failed and was not attempted since
    peer              \* a second daemon instance: its position, its locals, and
                      \* the ids it has called spawn_session for

vars ==
    <<issuesFile, sessions, command, dry_run, pc, issues, active_sessions, todo,
      actions, calls, mtime, last_mtime, passNo, prevOk, startOk, firstTick,
      syncs, notice, gate, unseen, missed, cutOff, report, prevDry, retry, peer>>

\* ------------------------------------------------------- Record Store Reader
\* One parsed line: kind "json" is a JSON object, kind "bad" raises
\* json.JSONDecodeError.
JsonLine(id, status) == [kind |-> "json", id |-> id, status |-> status]

RECURSIVE ParseLines(_, _)
ParseLines(lines, acc) ==
    IF lines = << >> THEN acc
    ELSE LET line == Head(lines)
             nxt  == IF line.kind = "json" /\ line.id # NoId
                     THEN (line.id :> line.status) @@ acc
                     ELSE acc
         IN  ParseLines(Tail(lines), nxt)

\* Lines 42-43 and 60: the dict load_issues returns, when it returns.
load_issues(file) ==
    IF ~file.exists THEN EmptyDict ELSE ParseLines(file.lines, EmptyDict)

\* A line json.loads rejects (json.JSONDecodeError, caught at line 55).
BadLine == [kind |-> "bad", id |-> NoId, status |-> NoStatus]

\* A line that is empty once stripped (line 49).
BlankLine == [kind |-> "blank", id |-> NoId, status |-> NoStatus]

\* A line json.loads accepts and that is no JSON object: a number, a string,
\* a list, true, false or null.
ScalarLine == [kind |-> "scalar", id |-> NoId, status |-> NoStatus]

\* Lines 51-56: issue.get on a value that is not a dict raises AttributeError,
\* which neither except clause (lines 55, 57) catches: load_issues does not
\* return, and the exception goes on to its caller.
LoadRaises(file) ==
    /\ file.exists
    /\ \E i \in DOMAIN file.lines : file.lines[i].kind = "scalar"

\* ------------------------------------------------------------ State Classifier
closed_statuses == {"closed", "done", "blocked", "blocking", "cancelled", "wontfix"}

\* As get_in_progress_beads, with "open" taken for an active status.
get_in_progress_beads_open(iss) ==
    {id \in DOMAIN iss : iss[id] \in {"in_progress", "open"}}

get_in_progress_beads(iss) == {id \in DOMAIN iss : iss[id] = "in_progress"}

\* As get_closed_beads, with only the four statuses its docstring names.
get_closed_beads_docstring(iss) ==
    {id \in DOMAIN iss : iss[id] \in {"closed", "done", "blocked", "blocking"}}

get_closed_beads(iss) == {id \in DOMAIN iss : iss[id] \in closed_statuses}

\* ------------------------------------------------------------ Session Registry
list_sessions(reg) == {id \in Ids : reg[id] > 0}

\* What a call may answer: a session / True, None / False, or a raised fault.
Replies == {"ok", "fail", "raise"}

spawn_session(reg, id, reply) ==
    IF reply = "ok" THEN [reg EXCEPT ![id] = @ + 1] ELSE reg

terminate_session(reg, id, reply) ==
    IF reply = "ok" THEN [reg EXCEPT ![id] = 0] ELSE reg

\* ------------------------------------------------------------------ Reconciler
\* As NeedSpawn, without the difference.
NeedSpawn_all(in_progress, live) == in_progress

\* As NeedSpawn, with a union for the difference.
NeedSpawn_union(in_progress, live) == in_progress \cup live

NeedSpawn(in_progress, live) == in_progress \ live

\* As NeedTerminate, with every listed session terminated.
NeedTerminate_live(live, closed) == live

NeedTerminate(live, closed) == live \cap closed

\* `if not dry_run:` decides whether the call is made.
Executes_always(dry) == TRUE

Executes(dry) == ~dry

\* As SpawnTag, with the result of the call ignored.
SpawnTag_ignored(reply) == "spawned"

SpawnTag(reply) == IF reply = "ok" THEN "spawned" ELSE "spawn_failed"

TerminateTag(reply) == IF reply = "ok" THEN "terminated" ELSE "terminate_failed"

\* As DryRunTag, with the tag of line 114 copied to line 129.
DryRunTag_copied(op) == "would_spawn"

\* Lines 114 and 129: what a dry run records in place of the call.
DryRunTag(op) == IF op = "spawn" THEN "would_spawn" ELSE "would_terminate"

\* The ids an ActionRecord reports a failed call for.
FailedIds(rec) ==
    {id \in DOMAIN rec : rec[id] \in {"spawn_failed", "terminate_failed"}}

\* The files the model starts with: one record per bead at most.
RECURSIVE LinesOf(_, _)
LinesOf(snap, n) ==
    IF n = 0 THEN << >>
    ELSE IF snap[n] = "absent" THEN LinesOf(snap, n - 1)
         ELSE Append(LinesOf(snap, n - 1), JsonLine(n, snap[n]))

NoFile == [exists |-> FALSE, mtime |-> 0, lines |-> << >>]

FileOf(snap, m) == [exists |-> TRUE, mtime |-> m, lines |-> LinesOf(snap, NumIds)]

\* The two classification vocabularies, as the design states them.
ActiveVocabulary == {"in_progress"}
InactiveVocabulary == {"closed", "done", "blocked", "blocking", "cancelled", "wontfix"}

\* The status the record store holds for a bead, "absent" if it has no record.
StatusOf(file, id) ==
    LET iss == load_issues(file)
    IN  IF id \in DOMAIN iss THEN iss[id] ELSE "absent"

\* The inconsistency set: active ids without a live session and inactive ids
\* that still hold one.
Inconsistency(file, reg) ==
    {id \in Ids :
        \/ StatusOf(file, id) \in ActiveVocabulary /\ reg[id] = 0
        \/ StatusOf(file, id) \in InactiveVocabulary /\ reg[id] > 0}

NoGate == [exists |-> FALSE, mtime |-> 0, last |-> 0]

\* status_report has printed nothing.
NoReport ==
    [printed |-> FALSE, missing |-> {}, orphaned |-> {}, listed |-> {},
     in_sync |-> FALSE]

\* There was no earlier `sync` run.
NoRun == [dry |-> FALSE, actions |-> EmptyDict]

\* No second daemon instance is running.
NoPeer ==
    [pc |-> "none", issues |-> EmptyDict, active_sessions |-> {}, todo |-> {},
     spawned |-> {}]

\* ------------------------------------------------------------ sync_sessions
\* Lines 88-99: load the snapshot, list the live sessions, start the spawn loop.
SyncLoad ==
    /\ pc = "load"
    /\ IF LoadRaises(issuesFile)
       THEN /\ pc' = "raised"
            /\ UNCHANGED <<issues, active_sessions, todo>>
       ELSE /\ LET iss  == load_issues(issuesFile)
                   live == list_sessions(sessions)
               IN  /\ issues' = iss
                   /\ active_sessions' = live
                   /\ todo' = NeedSpawn(get_in_progress_beads(iss), live)
            /\ pc' = "spawn"
    /\ actions' = EmptyDict
    /\ calls' = {}
    /\ startOk' = (Inconsistency(issuesFile, sessions) = {})
    /\ unseen' = FALSE
    /\ missed' = FALSE
    /\ UNCHANGED <<issuesFile, sessions, command, dry_run, mtime, last_mtime,
                   passNo, prevOk, firstTick, syncs, notice, gate, cutOff,
                   report, prevDry, retry, peer>>

\* Lines 100-114: one iteration of the spawn loop.
SpawnOne(bead_id) ==
    /\ pc = "spawn"
    /\ bead_id \in todo
    /\ IF Executes(dry_run)
       THEN \E reply \in Replies :
              /\ sessions' = spawn_session(sessions, bead_id, reply)
              /\ calls' = calls \cup {[op |-> "spawn", id |-> bead_id, reply |-> reply]}
              /\ IF reply = "raise"
                 THEN /\ pc' = "raised"
                      /\ UNCHANGED <<actions, todo>>
                 ELSE /\ actions' = (bead_id :> SpawnTag(reply)) @@ actions
                      /\ todo' = todo \ {bead_id}
                      /\ pc' = pc
       ELSE /\ actions' = (bead_id :> DryRunTag("spawn")) @@ actions
            /\ todo' = todo \ {bead_id}
            /\ UNCHANGED <<sessions, calls, pc>>
    /\ retry' = IF Executes(dry_run) THEN retry \ {bead_id} ELSE retry
    /\ UNCHANGED <<issuesFile, command, dry_run, issues, active_sessions, mtime,
                   last_mtime, passNo, prevOk, startOk, firstTick, syncs, notice,
                   gate, unseen, missed, cutOff,
                   report, prevDry, peer>>

\* Lines 117-119: the spawn loop is over, the terminate loop starts.
SpawnDone ==
    /\ pc = "spawn"
    /\ todo = {}
    /\ todo' = NeedTerminate(active_sessions, get_closed_beads(issues))
    /\ pc' = "terminate"
    /\ UNCHANGED <<issuesFile, sessions, command, dry_run, issues, active_sessions,
                   actions, calls, mtime, last_mtime, passNo, prevOk, startOk,
                   firstTick, syncs, notice, gate, unseen, missed, cutOff,
                   report, prevDry, retry, peer>>

\* Lines 119-129: one iteration of the terminate loop.
TerminateOne(bead_id) ==
    /\ pc = "terminate"
    /\ bead_id \in todo
    /\ IF Executes(dry_run)
       THEN \E reply \in Replies :
              /\ sessions' = terminate_session(sessions, bead_id, reply)
              /\ calls' = calls \cup {[op |-> "terminate", id |-> bead_id, reply |-> reply]}
              /\ IF reply = "raise"
                 THEN /\ pc' = "raised"
                      /\ UNCHANGED <<actions, todo>>
                 ELSE /\ actions' = (bead_id :> TerminateTag(reply)) @@ actions
                      /\ todo' = todo \ {bead_id}
                      /\ pc' = pc
       ELSE /\ actions' = (bead_id :> DryRunTag("terminate")) @@ actions
            /\ todo' = todo \ {bead_id}
            /\ UNCHANGED <<sessions, calls, pc>>
    /\ retry' = IF Executes(dry_run) THEN retry \ {bead_id} ELSE retry
    /\ UNCHANGED <<issuesFile, command, dry_run, issues, active_sessions, mtime,
                   last_mtime, passNo, prevOk, startOk, firstTick, syncs, notice,
                   gate, unseen, missed, cutOff,
                   report, prevDry, peer>>

\* The locals of sync_sessions are gone once its caller is done with the
\* ActionRecord; nothing reads them again.
ForgetPass ==
    /\ issues' = EmptyDict
    /\ active_sessions' = {}
    /\ todo' = {}
    /\ actions' = EmptyDict
    /\ calls' = {}
    /\ startOk' = FALSE

\* Line 131 and the caller's next statements: one_shot keeps the ActionRecord
\* for its summary (lines 172-182), watch_loop prints its size and stores the
\* observed timestamp (lines 156-159).
SyncReturn ==
    /\ pc = "terminate"
    /\ todo = {}
    /\ IF command = "watch"
       THEN /\ last_mtime' = mtime
            /\ pc' = "sleep"
            /\ retry' = FailedIds(actions)
            /\ ForgetPass
       ELSE /\ pc' = "done"
            /\ UNCHANGED <<last_mtime, issues, active_sessions, todo, actions,
                           calls, startOk, retry>>
    /\ UNCHANGED <<issuesFile, sessions, command, dry_run, mtime, passNo, prevOk,
                   firstTick, syncs, notice, gate, unseen, missed, cutOff,
                   report, prevDry, peer>>

\* ------------------------------------------------------------------- one_shot
\* The operator runs `sync` again on the store and registry the last run left.
Rerun ==
    /\ command = "sync"
    /\ pc = "done"
    /\ passNo < MaxPasses
    /\ passNo' = passNo + 1
    /\ prevOk' = (/\ ~dry_run
                  /\ actions # EmptyDict
                  /\ \A id \in DOMAIN actions : actions[id] \in {"spawned", "terminated"})
    /\ dry_run' \in BOOLEAN
    /\ prevDry' = IF dry_run /\ ~dry_run'
                  THEN [dry |-> TRUE, actions |-> actions]
                  ELSE NoRun
    /\ pc' = "load"
    /\ ForgetPass
    /\ UNCHANGED <<issuesFile, sessions, command, mtime, last_mtime, firstTick,
                   syncs, notice, gate, unseen, missed, cutOff,
                   report, retry, peer>>

InitCommon ==
    /\ sessions \in [Ids -> 0..1]
    /\ dry_run \in BOOLEAN
    /\ issues = EmptyDict
    /\ active_sessions = {}
    /\ todo = {}
    /\ actions = EmptyDict
    /\ calls = {}
    /\ mtime = 0
    /\ last_mtime = 0
    /\ passNo = 1
    /\ prevOk = FALSE
    /\ startOk = FALSE
    /\ firstTick = TRUE
    /\ syncs = 0
    /\ notice = FALSE
    /\ gate = NoGate
    /\ unseen = FALSE
    /\ missed = FALSE
    /\ cutOff = FALSE
    /\ report = NoReport
    /\ prevDry = NoRun
    /\ retry = {}
    /\ peer = NoPeer

Init ==
    /\ command = "sync"
    /\ pc = "load"
    /\ issuesFile \in {NoFile} \cup
           {FileOf(snap, 1) : snap \in [Ids -> Statuses \cup {"absent"}]}
    /\ InitCommon

Next ==
    \/ SyncLoad
    \/ \E id \in Ids : SpawnOne(id)
    \/ SpawnDone
    \/ \E id \in Ids : TerminateOne(id)
    \/ SyncReturn
    \/ Rerun

Spec == Init /\ [][Next]_vars

\* ------------------------------------------------------------------ watch_loop
\* As ShouldSync, with >= for >.
ShouldSync_ge(exists, m, last) == exists /\ m >= last

\* Line 148-150: the tick runs a pass when the file exists and is newer.
ShouldSync(exists, m, last) == exists /\ m > last

\* Lines 148-154: the top of one tick.
Check ==
    /\ command = "watch"
    /\ pc = "check"
    /\ gate' = [exists |-> issuesFile.exists, mtime |-> issuesFile.mtime,
                last |-> last_mtime]
    /\ missed' = unseen
    /\ mtime' = IF issuesFile.exists THEN issuesFile.mtime ELSE mtime
    /\ IF ShouldSync(issuesFile.exists, issuesFile.mtime, last_mtime)
       THEN /\ notice' = (last_mtime > 0)
            /\ syncs' = syncs + 1
            /\ pc' = "load"
       ELSE /\ pc' = "sleep"
            /\ UNCHANGED <<notice, syncs>>
    /\ UNCHANGED <<issuesFile, sessions, command, dry_run, issues, active_sessions,
                   todo, actions, calls, last_mtime, passNo, prevOk, startOk,
                   firstTick, unseen, cutOff,
                   report, prevDry, retry, peer>>

\* Line 161: time.sleep(WATCH_INTERVAL) returns and the next tick begins.  The
\* mtime of the finished tick is never read again (line 149 assigns it anew
\* before every use), so it is dropped with the tick's bookkeeping.
Sleep ==
    /\ command = "watch"
    /\ pc = "sleep"
    /\ pc' = "check"
    /\ firstTick' = FALSE
    /\ syncs' = 0
    /\ notice' = FALSE
    /\ gate' = NoGate
    /\ mtime' = 0
    /\ UNCHANGED <<issuesFile, sessions, command, dry_run, issues, active_sessions,
                   todo, actions, calls, last_mtime, passNo, prevOk, startOk,
                   unseen, missed, cutOff,
                   report, prevDry, retry, peer>>

Running == command = "watch" /\ pc \notin {"stopped", "raised"}

\* The ids the running pass has still to act on.
Remaining ==
    IF pc = "spawn"
    THEN todo \cup NeedTerminate(active_sessions, get_closed_beads(issues))
    ELSE IF pc = "terminate" THEN todo ELSE {}

\* Lines 163-164: KeyboardInterrupt is raised at whatever statement the loop is
\* executing and is caught by the except clause around the loop; watch_loop
\* returns and its locals are gone.
Interrupt ==
    /\ Running
    /\ cutOff' = (/\ pc \in {"spawn", "terminate"}
                   /\ calls # {}
                   /\ Remaining # {})
    /\ pc' = "stopped"
    /\ ForgetPass
    /\ mtime' = 0
    /\ last_mtime' = 0
    /\ firstTick' = FALSE
    /\ syncs' = 0
    /\ notice' = FALSE
    /\ gate' = NoGate
    /\ unseen' = FALSE
    /\ missed' = FALSE
    /\ retry' = {}
    /\ UNCHANGED <<issuesFile, sessions, command, dry_run, passNo, prevOk, report,
                   prevDry, peer>>

\* --------------------------------------------------- the record store's writer
\* The store changes between ticks, between the stat of line 149 and the load
\* of line 89, and while a pass is in progress.  A pass reads the file at line
\* 89 only, so a write that falls into its loops is taken at their end.
StoreChange(new) ==
    /\ Running
    /\ \/ pc \in {"check", "load"}
       \/ pc \in {"spawn", "terminate"} /\ Remaining = {}
    /\ issuesFile' = new
    /\ unseen' = (/\ new.exists
                  /\ unseen \/ load_issues(new) # load_issues(issuesFile))
    /\ retry' = {}
    /\ UNCHANGED <<sessions, command, dry_run, pc, issues, active_sessions, todo,
                   actions, calls, mtime, last_mtime, passNo, prevOk, startOk,
                   firstTick, syncs, notice, gate, missed, cutOff,
                   report, prevDry, peer>>

SnapOf(file) == [id \in Ids |->
                   IF id \in DOMAIN load_issues(file) THEN load_issues(file)[id]
                   ELSE "absent"]

\* The tracker rewrites the file with one bead's status set; the new
\* modification time is the time of the write: a later timestamp, or the old
\* one again when both writes fall into one timestamp granule.
WriteIssues(id, status, m) ==
    /\ issuesFile.exists
    /\ m \in {issuesFile.mtime, issuesFile.mtime + 1}
    /\ StoreChange(FileOf([SnapOf(issuesFile) EXCEPT ![id] = status], m))

\* An older file is moved into place (a checkout, a restored backup); it keeps
\* the modification time it had.
ReplaceIssues(snap, m) ==
    /\ issuesFile.exists
    /\ m = issuesFile.mtime - 1
    /\ m >= 1
    /\ StoreChange(FileOf(snap, m))

\* The tracker creates the file.
CreateIssues(snap, m) ==
    /\ ~issuesFile.exists
    /\ StoreChange(FileOf(snap, m))

\* The file is removed.
RemoveIssues ==
    /\ issuesFile.exists
    /\ StoreChange(NoFile)

InitWatch ==
    /\ command = "watch"
    /\ pc = "check"
    /\ issuesFile \in {NoFile} \cup
           {FileOf(snap, m) : snap \in [Ids -> WatchStatuses],
                              m \in 1..MaxTime}
    /\ InitCommon

NextWatch ==
    \/ Check
    \/ SyncLoad
    \/ \E id \in Ids : SpawnOne(id)
    \/ SpawnDone
    \/ \E id \in Ids : TerminateOne(id)
    \/ SyncReturn
    \/ Sleep
    \/ Interrupt
    \/ \E id \in Ids, status \in WatchStatuses, m \in 1..MaxTime :
          WriteIssues(id, status, m)
    \/ \E snap \in [Ids -> WatchStatuses], m \in 1..MaxTime :
          ReplaceIssues(snap, m)
    \/ \E snap \in [Ids -> WatchStatuses], m \in 1..MaxTime :
          CreateIssues(snap, m)
    \/ RemoveIssues

SpecWatch == InitWatch /\ [][NextWatch]_vars

\* The statements of the daemon itself: every one of them completes and
\* time.sleep returns, so the loop goes on for as long as it is not stopped.
\* Nothing obliges the store to be written or the interrupt to arrive.
DaemonStep ==
    \/ Check
    \/ SyncLoad
    \/ \E id \in Ids : SpawnOne(id)
    \/ SpawnDone
    \/ \E id \in Ids : TerminateOne(id)
    \/ SyncReturn
    \/ Sleep

SpecWatchFair == SpecWatch /\ WF_vars(DaemonStep)

\* --------------------------------------------------------------- status_report
\* Line 220: active beads that have no live session.
Missing(in_progress, active_ids) == in_progress \ active_ids

\* As Orphaned, with every live session reported.
Orphaned_all(in_progress, active_ids) == active_ids

\* Line 221: live sessions whose bead is not in_progress.
Orphaned(in_progress, active_ids) == active_ids \ in_progress

\* As InSync, with the orphaned list left out of the test.
InSync_missing(missing, orphaned) == missing = {}

\* Line 233: the condition of the "Sessions are in sync" line.
InSync(missing, orphaned) == missing = {} /\ orphaned = {}

\* Lines 223-231: the drift lists that are printed.
Listed(missing, orphaned) ==
    (IF missing # {} THEN {"missing"} ELSE {}) \cup
    (IF orphaned # {} THEN {"orphaned"} ELSE {})

\* As StatusCalls, with the reporter repairing the drift it found.
StatusCalls_repair(missing, orphaned) ==
    {[op |-> "spawn", id |-> id, reply |-> "ok"] : id \in missing} \cup
    {[op |-> "terminate", id |-> id, reply |-> "ok"] : id \in orphaned}

\* Lines 185-234: the spawn and terminate calls status_report makes; its only
\* call into the registry is list_sessions (line 203).
StatusCalls(missing, orphaned) == {}

\* The registry after it has served a set of calls.
Served(reg, cs) ==
    [id \in Ids |->
        IF [op |-> "terminate", id |-> id, reply |-> "ok"] \in cs
        THEN terminate_session(reg, id, "ok")[id]
        ELSE IF [op |-> "spawn", id |-> id, reply |-> "ok"] \in cs
             THEN spawn_session(reg, id, "ok")[id]
             ELSE reg[id]]

\* Lines 191-192: the snapshot is loaded.
StatusLoad ==
    /\ command = "status"
    /\ pc = "status"
    /\ IF LoadRaises(issuesFile)
       THEN /\ pc' = "raised"
            /\ UNCHANGED issues
       ELSE /\ issues' = load_issues(issuesFile)
            /\ pc' = "list"
    /\ UNCHANGED <<issuesFile, sessions, command, dry_run, active_sessions, todo,
                   actions, calls, mtime, last_mtime, passNo, prevOk, startOk,
                   firstTick, syncs, notice, gate, unseen, missed, cutOff,
                   report, prevDry, retry, peer>>

\* Lines 203-206 and 219: the sessions are listed and the active ones kept.
StatusList ==
    /\ command = "status"
    /\ pc = "list"
    /\ active_sessions' = list_sessions(sessions)
    /\ pc' = "compare"
    /\ UNCHANGED <<issuesFile, sessions, command, dry_run, issues, todo,
                   actions, calls, mtime, last_mtime, passNo, prevOk, startOk,
                   firstTick, syncs, notice, gate, unseen, missed, cutOff,
                   report, prevDry, retry, peer>>

\* Lines 219-234: the drift sets are computed and printed.
StatusCompare ==
    /\ command = "status"
    /\ pc = "compare"
    /\ LET in_progress == get_in_progress_beads(issues)
           missing     == Missing(in_progress, active_sessions)
           orphaned    == Orphaned(in_progress, active_sessions)
       IN  /\ report' = [printed  |-> TRUE,
                         missing  |-> missing,
                         orphaned |-> orphaned,
                         listed   |-> Listed(missing, orphaned),
                         in_sync  |-> InSync(missing, orphaned)]
           /\ calls' = calls \cup StatusCalls(missing, orphaned)
           /\ sessions' = Served(sessions, StatusCalls(missing, orphaned))
    /\ pc' = "reported"
    /\ UNCHANGED <<issuesFile, command, dry_run, issues, active_sessions, todo,
                   actions, mtime, last_mtime, passNo, prevOk, startOk,
                   firstTick, syncs, notice, gate, unseen, missed, cutOff,
                   prevDry, retry, peer>>

InitStatus ==
    /\ command = "status"
    /\ pc = "status"
    /\ issuesFile \in {NoFile} \cup
           {FileOf(snap, 1) : snap \in [Ids -> Statuses \cup {"absent"}]}
    /\ InitCommon

NextStatus ==
    \/ StatusLoad
    \/ StatusList
    \/ StatusCompare

SpecStatus == InitStatus /\ [][NextStatus]_vars

\* ------------------------------------------------------ two daemon instances
\* A second `sync` process runs sync_sessions on the same record file and the
\* same Session Registry; its statements interleave with the first one's.
\* Lines 88-99 in the second instance.
PeerLoad ==
    /\ peer.pc = "load"
    /\ LET iss  == load_issues(issuesFile)
           live == list_sessions(sessions)
       IN  peer' = [pc |-> "spawn", issues |-> iss, active_sessions |-> live,
                    todo |-> NeedSpawn(get_in_progress_beads(iss), live),
                    spawned |-> {}]
    /\ UNCHANGED <<issuesFile, sessions, command, dry_run, pc, issues,
                   active_sessions, todo, actions, calls, mtime, last_mtime,
                   passNo, prevOk, startOk, firstTick, syncs, notice, gate,
                   unseen, missed, cutOff, report, prevDry, retry>>

\* Lines 100-112 in the second instance.
PeerSpawn(bead_id) ==
    /\ peer.pc = "spawn"
    /\ bead_id \in peer.todo
    /\ \E reply \in Replies :
          /\ sessions' = spawn_session(sessions, bead_id, reply)
          /\ peer' = [peer EXCEPT
                        !.pc = IF reply = "raise" THEN "raised" ELSE @,
                        !.todo = IF reply = "raise" THEN @ ELSE @ \ {bead_id},
                        !.spawned = @ \cup {bead_id}]
    /\ UNCHANGED <<issuesFile, command, dry_run, pc, issues,
                   active_sessions, todo, actions, calls, mtime, last_mtime,
                   passNo, prevOk, startOk, firstTick, syncs, notice, gate,
                   unseen, missed, cutOff, report, prevDry, retry>>

\* Lines 117-119 in the second instance.
PeerSpawnDone ==
    /\ peer.pc = "spawn"
    /\ peer.todo = {}
    /\ peer' = [peer EXCEPT
                  !.pc = "terminate",
                  !.todo = NeedTerminate(peer.active_sessions,
                                         get_closed_beads(peer.issues))]
    /\ UNCHANGED <<issuesFile, sessions, command, dry_run, pc, issues,
                   active_sessions, todo, actions, calls, mtime, last_mtime,
                   passNo, prevOk, startOk, firstTick, syncs, notice, gate,
                   unseen, missed, cutOff, report, prevDry, retry>>

\* Lines 119-127 in the second instance.
PeerTerminate(bead_id) ==
    /\ peer.pc = "terminate"
    /\ bead_id \in peer.todo
    /\ \E reply \in Replies :
          /\ sessions' = terminate_session(sessions, bead_id, reply)
          /\ peer' = [peer EXCEPT
                        !.pc = IF reply = "raise" THEN "raised" ELSE @,
                        !.todo = IF reply = "raise" THEN @ ELSE @ \ {bead_id}]
    /\ UNCHANGED <<issuesFile, command, dry_run, pc, issues,
                   active_sessions, todo, actions, calls, mtime, last_mtime,
                   passNo, prevOk, startOk, firstTick, syncs, notice, gate,
                   unseen, missed, cutOff, report, prevDry, retry>>

\* Line 131 in the second instance.
PeerReturn ==
    /\ peer.pc = "terminate"
    /\ peer.todo = {}
    /\ peer' = [peer EXCEPT !.pc = "done"]
    /\ UNCHANGED <<issuesFile, sessions, command, dry_run, pc, issues,
                   active_sessions, todo, actions, calls, mtime, last_mtime,
                   passNo, prevOk, startOk, firstTick, syncs, notice, gate,
                   unseen, missed, cutOff, report, prevDry, retry>>

\* Two `sync` processes are started together, neither as a dry run.
InitTwo ==
    /\ command = "sync"
    /\ pc = "load"
    /\ issuesFile \in {NoFile} \cup
           {FileOf(snap, 1) : snap \in [Ids -> WatchStatuses]}
    /\ sessions \in [Ids -> 0..1]
    /\ dry_run = FALSE
    /\ issues = EmptyDict
    /\ active_sessions = {}
    /\ todo = {}
    /\ actions = EmptyDict
    /\ calls = {}
    /\ mtime = 0
    /\ last_mtime = 0
    /\ passNo = 1
    /\ prevOk = FALSE
    /\ startOk = FALSE
    /\ firstTick = TRUE
    /\ syncs = 0
    /\ notice = FALSE
    /\ gate = NoGate
    /\ unseen = FALSE
    /\ missed = FALSE
    /\ cutOff = FALSE
    /\ report = NoReport
    /\ prevDry = NoRun
    /\ retry = {}
    /\ peer = [NoPeer EXCEPT !.pc = "load"]

NextTwo ==
    \/ SyncLoad
    \/ \E id \in Ids : SpawnOne(id)
    \/ SpawnDone
    \/ \E id \in Ids : TerminateOne(id)
    \/ SyncReturn
    \/ PeerLoad
    \/ \E id \in Ids : PeerSpawn(id)
    \/ PeerSpawnDone
    \/ \E id \in Ids : PeerTerminate(id)
    \/ PeerReturn

SpecTwo == InitTwo /\ [][NextTwo]_vars

\* ------------------------------------------------- load_issues on any file
\* The lines a record file is made of.
LoadLines ==
    {JsonLine(id, status) : id \in Ids \cup {NoId}, status \in WatchStatuses}
        \cup {BadLine, BlankLine, ScalarLine}

LineSeqs == UNION {[1..n -> LoadLines] : n \in 0..MaxLines}

\* `sync --dry-run` or `status` started on a record file of any content.
InitLoad ==
    /\ \/ command = "sync" /\ pc = "load"
       \/ command = "status" /\ pc = "status"
    /\ issuesFile \in {NoFile} \cup
           {[exists |-> TRUE, mtime |-> 1, lines |-> ls] : ls \in LineSeqs}
    /\ InitCommon
    /\ sessions = [id \in Ids |-> 0]
    /\ dry_run

NextLoad ==
    \/ SyncLoad
    \/ StatusLoad

SpecLoad == InitLoad /\ [][NextLoad]_vars

\* The whole command surface: any command, as main dispatches them.
InitAll == Init \/ InitWatch \/ InitStatus

NextAll == Next \/ NextWatch \/ NextStatus

SpecAll == InitAll /\ [][NextAll]_vars

\* =================================================================== claims
\* The pass made real calls and every one of them succeeded.
AllSucceeded == \A c \in calls : c.reply = "ok"

\* The sets the pass works on, from its snapshot and its session listing.
PassNeedSpawn == NeedSpawn(get_in_progress_beads(issues), active_sessions)

PassNeedTerminate == NeedTerminate(active_sessions, get_closed_beads(issues))

\* C1 (convergence): when a real `sync` pass has returned and every spawn and
\* terminate call it made succeeded, the inconsistency set is empty: no active
\* id lacks a live session and no inactive id still holds one.
C1_Convergence ==
    (pc = "done" /\ ~dry_run /\ AllSucceeded)
        => Inconsistency(issuesFile, sessions) = {}

\* A successful real pass that began inconsistent and both spawned and terminated.
C1_Witness ==
    /\ pc = "done" /\ ~dry_run /\ AllSucceeded /\ ~startOk
    /\ \E c \in calls : c.op = "spawn"
    /\ \E c \in calls : c.op = "terminate"

\* C2 (idempotence): a pass that began with the registry consistent with the
\* store returns an empty ActionRecord and makes no registry call; so does a
\* pass run right after a pass whose actions all succeeded.
C2_Idempotence ==
    /\ (pc = "done" /\ startOk) => (actions = EmptyDict /\ calls = {})
    /\ (pc = "done" /\ passNo > 1 /\ prevOk) => (actions = EmptyDict /\ calls = {})

\* The second of two runs has returned, the first one having acted with success.
C2_Witness ==
    /\ pc = "done" /\ passNo = 2 /\ prevOk /\ startOk
    /\ actions = EmptyDict

\* C3 (dry-run purity): in a dry-run pass, of `sync` or of any tick of `watch`,
\* no step changes the registry's sessions and the registry receives no call.
C3_DryRunPurity ==
    [][(dry_run => sessions' = sessions) /\ (dry_run' => calls' = {})]_vars

\* A dry-run tick of the watch loop is about to return two reported actions.
C3_Witness ==
    /\ command = "watch" /\ dry_run
    /\ pc = "terminate" /\ todo = {}
    /\ \E a, b \in DOMAIN actions :
          actions[a] = "would_spawn" /\ actions[b] = "would_terminate"
    /\ calls = {}

\* C4 (partial failure): in a real pass every call the registry answered with
\* a failure value is recorded as spawn_failed / terminate_failed, every call
\* it answered with success as spawned / terminated, a failure value never
\* ends the pass, and the returned ActionRecord has an outcome for every id of
\* needSpawn and needTerminate.
C4_PartialFailure ==
    /\ \A c \in calls :
          c.reply # "raise" =>
             /\ c.id \in DOMAIN actions
             /\ actions[c.id] =
                   IF c.op = "spawn"
                   THEN (IF c.reply = "ok" THEN "spawned" ELSE "spawn_failed")
                   ELSE (IF c.reply = "ok" THEN "terminated" ELSE "terminate_failed")
    /\ pc = "raised" => \E c \in calls : c.reply = "raise"
    /\ pc = "done" => DOMAIN actions = PassNeedSpawn \cup PassNeedTerminate

\* Scenario E: one spawn failed, another succeeded, the pass returned.
C4_Witness ==
    /\ pc = "done"
    /\ \E a, b \in DOMAIN actions :
          actions[a] = "spawn_failed" /\ actions[b] = "spawned"

\* C5 (spawn failure never raises past the Reconciler): however a spawn call
\* fails, by a failure value or by a raised fault, the pass goes on and the id
\* is recorded as spawn_failed.
C5_SpawnFailureCaught ==
    \A c \in calls :
        (c.op = "spawn" /\ c.reply \in {"fail", "raise"}) =>
            /\ pc # "raised"
            /\ c.id \in DOMAIN actions
            /\ actions[c.id] = "spawn_failed"

\* C6 as stated: at the end of every tick a pass has run exactly when the
\* modification time exceeded the observed timestamp, which is then that
\* modification time; the first tick has run exactly one pass and printed no
\* notice; a tick that saw an unchanged modification time has run none.
C6_Original ==
    pc = "sleep" =>
        /\ syncs = (IF gate.mtime > gate.last THEN 1 ELSE 0)
        /\ syncs = 1 => last_mtime = gate.mtime
        /\ firstTick => (syncs = 1 /\ ~notice)
        /\ (~firstTick /\ gate.mtime = gate.last) => syncs = 0

\* C6 (watch-loop gating, amended): at the end of every tick a pass has run
\* exactly when the record file existed and its modification time exceeded
\* the observed timestamp (0 before the first pass), and the observed
\* timestamp is then that modification time; a first tick that found the file
\* with a positive modification time has run exactly one pass and printed no
\* notice; a tick that saw an unchanged modification time has run none.
C6_Gating ==
    /\ syncs \in {0, 1}
    /\ firstTick => ~notice
    /\ pc = "sleep" =>
        /\ syncs = (IF gate.exists /\ gate.mtime > gate.last THEN 1 ELSE 0)
        /\ syncs = 1 => last_mtime = gate.mtime
        /\ (firstTick /\ gate.exists /\ gate.mtime > 0) => (syncs = 1 /\ ~notice)
        /\ (gate.exists /\ gate.mtime = gate.last) => syncs = 0

\* A later tick has ended without a pass: the modification time was the one
\* an earlier pass had observed.
C6_Witness ==
    /\ pc = "sleep" /\ ~firstTick
    /\ gate.exists /\ gate.last > 0 /\ gate.mtime = gate.last
    /\ syncs = 0

\* C7 (eventual detection, bounded staleness): at the end of every tick, each
\* status change that was in the record store when the tick began has been
\* loaded by a pass.
C7_NoMissedTransition == pc = "sleep" => ~missed

\* C8 (interrupt): once the interrupt has stopped the watch loop, no pass has
\* been cut off after some but not all of its spawn/terminate calls.
C8_NoPartialPass == pc = "stopped" => ~cutOff

\* C9 (disjointness): the needSpawn and needTerminate of a pass are disjoint,
\* no id gets both a spawn and a terminate call, and no id with a recorded
\* outcome is due for another action of the pass.
C9_Disjoint ==
    /\ PassNeedSpawn \cap PassNeedTerminate = {}
    /\ \A c, d \in calls : c.id = d.id => c = d
    /\ pc \in {"spawn", "terminate"} => DOMAIN actions \cap Remaining = {}

\* A pass has returned with a spawn action and a terminate action.
C9_Witness ==
    /\ pc = "done"
    /\ PassNeedSpawn # {} /\ PassNeedTerminate # {}
    /\ \E a, b \in DOMAIN actions :
          actions[a] \in {"spawned", "spawn_failed", "would_spawn"} /\
          actions[b] \in {"terminated", "terminate_failed", "would_terminate"}

\* C10 (classification): the active and the inactive set of the loaded
\* snapshot are disjoint and are exactly the ids with a status of the
\* respective vocabulary; an id with any other status, or with none, is in
\* neither set, gets no outcome in the ActionRecord and no registry call.
C10_Classification ==
    LET active   == get_in_progress_beads(issues)
        inactive == get_closed_beads(issues)
        status(id) == IF id \in DOMAIN issues THEN issues[id] ELSE "absent"
    IN  /\ active \cap inactive = {}
        /\ \A id \in Ids :
              /\ id \in active <=> status(id) \in ActiveVocabulary
              /\ id \in inactive <=> status(id) \in InactiveVocabulary
              /\ status(id) \notin ActiveVocabulary \cup InactiveVocabulary =>
                    /\ id \notin active \cup inactive
                    /\ id \notin DOMAIN actions
                    /\ \A c \in calls : c.id # id

\* A pass has returned: one bead is "open" with a live session and got no
\* action, another bead got one.
C10_Witness ==
    /\ pc = "done"
    /\ \E id \in DOMAIN issues :
          /\ issues[id] = "open"
          /\ id \in active_sessions
          /\ id \notin DOMAIN actions
    /\ actions # EmptyDict

\* C11 (status_report is read-only): no step of the `status` command changes
\* the Session Registry's sessions or the watch loop's observed timestamp, and
\* the registry receives no spawn or terminate call from it, whatever the
\* snapshot and the registry hold.
C11_StatusReadOnly ==
    [][command = "status" =>
         /\ sessions' = sessions
         /\ last_mtime' = last_mtime
         /\ calls' = {}]_vars

\* A report has been printed that lists both kinds of drift.
C11_Witness ==
    /\ pc = "reported"
    /\ report.printed
    /\ report.missing # {}
    /\ report.orphaned # {}
    /\ sessions \in [Ids -> 0..1]

\* The ids the store gives an active status, and the ids with a live session.
ActiveSet == {id \in Ids : StatusOf(issuesFile, id) \in ActiveVocabulary}

LiveIds == {id \in Ids : sessions[id] > 0}

\* C12 (drift sets): the printed report has missing = the active ids without a
\* live session and orphaned = the live sessions' ids that are not active; it
\* says "in sync" exactly when both are empty, that is when the active ids are
\* the live ids, and otherwise lists exactly the non-empty sets.
C12_DriftSets ==
    pc = "reported" =>
        /\ report.missing = ActiveSet \ LiveIds
        /\ report.orphaned = LiveIds \ ActiveSet
        /\ report.in_sync <=> (ActiveSet = LiveIds)
        /\ report.in_sync <=> (report.missing = {} /\ report.orphaned = {})
        /\ ~report.in_sync =>
              /\ ("missing" \in report.listed) <=> (report.missing # {})
              /\ ("orphaned" \in report.listed) <=> (report.orphaned # {})

\* A report with orphaned sessions only: the missing list is empty and the
\* report does not say "in sync".
C12_Witness ==
    /\ pc = "reported"
    /\ report.missing = {}
    /\ report.orphaned # {}
    /\ ~report.in_sync
    /\ report.listed = {"orphaned"}

\* C13 (dry run reports the real action set): when a real `sync` run returns
\* that follows a dry run on the same store and the same live sessions, the two
\* ActionRecords hold the same ids, with would_spawn in the dry one exactly
\* where the real one has spawned or spawn_failed, and would_terminate exactly
\* where it has terminated or terminate_failed.
C13_DryRunReportsRealSet ==
    (pc = "done" /\ ~dry_run /\ prevDry.dry) =>
        /\ DOMAIN prevDry.actions = DOMAIN actions
        /\ \A id \in DOMAIN actions :
              /\ (prevDry.actions[id] = "would_spawn")
                     <=> (actions[id] \in {"spawned", "spawn_failed"})
              /\ (prevDry.actions[id] = "would_terminate")
                     <=> (actions[id] \in {"terminated", "terminate_failed"})

\* A real run after a dry run, with a failed spawn and a terminate among its
\* actions.
C13_Witness ==
    /\ pc = "done"
    /\ ~dry_run
    /\ prevDry.dry
    /\ \E a, b \in DOMAIN actions :
          /\ actions[a] = "spawn_failed"
          /\ actions[b] = "terminated"
          /\ prevDry.actions[a] = "would_spawn"
          /\ prevDry.actions[b] = "would_terminate"

\* The records of a file: for every id some JSON object line carries, the
\* status of the last such line.
ValidRecords(file) ==
    LET at(id) == {i \in DOMAIN file.lines :
                     file.lines[i].kind = "json" /\ file.lines[i].id = id}
        last(id) == CHOOSE i \in at(id) : \A j \in at(id) : j <= i
    IN  [id \in {id \in Ids : at(id) # {}} |-> file.lines[last(id)].status]

\* load_issues did not return: the exception of one of its lines left it.
LoadAborted == pc = "raised" /\ \A c \in calls : c.reply # "raise"

\* C14 (the reader tolerates partial corruption): no load is aborted by a line
\* that yields no record with an id, whether unparseable or parseable; the
\* snapshot a load returns holds every valid record of the file's other
\* lines, and a missing file gives the empty snapshot.
C14_ToleratesCorruption ==
    /\ ~LoadAborted
    /\ pc \in {"spawn", "list"} =>
          issues = IF issuesFile.exists THEN ValidRecords(issuesFile)
                   ELSE EmptyDict

\* C15 (retry through the next pass): an id whose spawn or terminate call
\* failed is not visited again by the loops of the same pass, and in watch
\* mode an id whose action failed is attempted again by a later tick, unless
\* the store is written or the loop ends before that.
C15_RetryByLaterTick ==
    /\ [](\A c \in calls : c.reply = "fail" => c.id \notin todo)
    /\ \A id \in Ids :
          (Running /\ id \in retry) ~> (~Running \/ id \notin retry)

\* C16 (the watch loop survives a failed tick): a fault that a tick's pass
\* lets through ends that tick only; watch_loop is never left by it, and only
\* the interrupt stops the loop.
C16_SurvivesFailedTick == command = "watch" => pc # "raised"

\* C17 (at most one session per bead under one daemon): every spawn call of a
\* pass is for an id that is active in the pass's snapshot and absent from the
\* session listing taken when the pass began, the spawn loop does not come
\* back to an id it has called spawn for, and no id ever has two live sessions.
C17_OneSessionPerItem ==
    /\ \A c \in calls :
          c.op = "spawn" =>
              /\ c.id \in DOMAIN issues
              /\ issues[c.id] \in ActiveVocabulary
              /\ c.id \notin active_sessions
              /\ pc = "spawn" => c.id \notin todo
    /\ \A id \in Ids : sessions[id] <= 1

\* A watch tick after the first one has spawned a session while another bead
\* keeps the session it had.
C17_Witness ==
    /\ command = "watch"
    /\ ~firstTick
    /\ \E a, b \in Ids :
          /\ [op |-> "spawn", id |-> a, reply |-> "ok"] \in calls
          /\ sessions[a] = 1
          /\ b \in active_sessions
          /\ b \in DOMAIN issues
          /\ issues[b] \in ActiveVocabulary
          /\ sessions[b] = 1

\* The outcome tags of the terminate loop.
TerminateTags == {"terminated", "terminate_failed", "would_terminate"}

\* C18 (terminate only on inactive status): every terminate call and every
\* terminate entry of the ActionRecord is for an id that was listed live and
\* whose snapshot status is inactive; a live session without a snapshot entry
\* or with an unrecognized status gets none, and the snapshot {W1: active}
\* with live sessions {W1, W2} gives an empty ActionRecord.
C18_TerminateOnlyInactive ==
    /\ \A c \in calls :
          c.op = "terminate" =>
              /\ c.id \in active_sessions
              /\ c.id \in DOMAIN issues
              /\ issues[c.id] \in InactiveVocabulary
    /\ \A id \in DOMAIN actions :
          actions[id] \in TerminateTags =>
              /\ id \in active_sessions
              /\ id \in DOMAIN issues
              /\ issues[id] \in InactiveVocabulary
    /\ (/\ pc = "done"
        /\ issues = (1 :> "in_progress")
        /\ active_sessions = {1, 2})
          => actions = EmptyDict

\* Scenario B after a real pass: W1 active and live, W2 live without a record,
\* and nothing was done.
C18_Witness ==
    /\ pc = "done"
    /\ ~dry_run
    /\ issues = (1 :> "in_progress")
    /\ active_sessions = {1, 2}
    /\ sessions[2] = 1
    /\ actions = EmptyDict
    /\ calls = {}

\* The status a record of the store gives the id, if it has one.
HasStatus(id) == StatusOf(issuesFile, id) \notin {"absent", NoStatus}

\* C19 as stated (orphan flagging): every live session the report lists as
\* orphaned belongs to an id whose snapshot status, if it has one, is inactive.
C19_Original ==
    pc = "reported" =>
        \A id \in report.orphaned :
            HasStatus(id) => StatusOf(issuesFile, id) \in InactiveVocabulary

\* C19 (orphan flagging, amended): a pass makes no call and records no action
\* for an id that has no record in its snapshot, and the report lists a live
\* session as orphaned exactly when its id's snapshot status is not the active
\* one: inactive, unrecognized, or no record at all.
C19_OrphanFlagging ==
    /\ \A id \in Ids \ DOMAIN issues :
          /\ id \notin DOMAIN actions
          /\ \A c \in calls : c.id # id
    /\ pc = "reported" =>
          report.orphaned =
              {id \in Ids : /\ sessions[id] > 0
                            /\ StatusOf(issuesFile, id) \notin ActiveVocabulary}

\* The report lists two orphaned sessions: one whose bead has no record and
\* one whose bead is open.
C19_Witness ==
    /\ pc = "reported"
    /\ \E a, b \in report.orphaned :
          /\ StatusOf(issuesFile, a) = "absent"
          /\ StatusOf(issuesFile, b) = "open"

\* C20 (two daemon instances can double-spawn): with two instances at work an
\* id gets a second live session in one way only: both instances listed the
\* sessions while the id had none, and both then called spawn for it.  Neither
\* instance looks at the registry again between its listing and its spawn.
C20_DoubleSpawn ==
    \A id \in Ids :
        /\ sessions[id] <= 2
        /\ sessions[id] = 2 =>
              /\ id \notin active_sessions
              /\ id \notin peer.active_sessions
              /\ id \in DOMAIN issues /\ issues[id] \in ActiveVocabulary
              /\ id \in DOMAIN peer.issues /\ peer.issues[id] \in ActiveVocabulary
              /\ [op |-> "spawn", id |-> id, reply |-> "ok"] \in calls
              /\ id \in peer.spawned

\* The race has happened: both instances listed no session for an active id,
\* both spawned one, and the id has two live sessions.
C20_Witness ==
    \E id \in Ids :
        /\ sessions[id] = 2
        /\ id \notin active_sessions
        /\ id \notin peer.active_sessions
        /\ [op |-> "spawn", id |-> id, reply |-> "ok"] \in calls
        /\ id \in peer.spawned
        /\ pc = "done"
        /\ peer.pc = "done"

====
